---- MODULE Spec2Model ----
(***************************************************************************)
(* Model of the stock-prediction data pipeline of the repository:          *)
(*   - DataLoader        (src/data-loader.js)   with GRUModel and its app, *)
(*   - StockDataLoader   (src/unnamed/part_000) with GRUStockPredictor and *)
(*     StockPredictionApp.                                                 *)
(* Array indices are the source's 0-based indices unless a definition says *)
(* otherwise; TLA+ sequences are 1-based, so a[i] of the source is a[i+1]. *)
(***************************************************************************)
EXTENDS Integers, Sequences, FiniteSets, TLC

(***************************************************************************)
(* JavaScript numbers.  A number is a pair <<n, d>>: the fraction n/d in   *)
(* lowest terms when d > 0, and NaN, +Infinity, -Infinity when d = 0.      *)
(* The value `undefined` is the pair <<0, -1>>.  Arithmetic is exact:      *)
(* rounding of IEEE doubles is not modelled.                               *)
(***************************************************************************)
NaN == <<0, 0>>
PosInf == <<1, 0>>
NegInf == <<-1, 0>>
Undefined == <<0, -1>>
Num(n) == <<n, 1>>
Half == <<1, 2>>

Abs(n) == IF n < 0 THEN -n ELSE n
Sign(n) == IF n > 0 THEN 1 ELSE IF n < 0 THEN -1 ELSE 0

RECURSIVE GCD(_, _)
GCD(a, b) == IF b = 0 THEN a ELSE GCD(b, a % b)

\* n/d in lowest terms with a positive denominator; n/0 is NaN or +-Infinity
Frac(n, d) ==
  IF d = 0 THEN <<Sign(n), 0>>
  ELSE LET g == GCD(Abs(n), Abs(d))
       IN  <<Sign(d) * (n \div g), Abs(d) \div g>>

IsFinite(v) == v[2] > 0
IsNaN(v) == v = NaN \/ v = Undefined

\* a - b
Sub(a, b) ==
  IF IsFinite(a) /\ IsFinite(b) THEN Frac(a[1] * b[2] - b[1] * a[2], a[2] * b[2])
  ELSE IF IsNaN(a) \/ IsNaN(b) THEN NaN
  ELSE IF IsFinite(b) THEN a
  ELSE IF IsFinite(a) THEN <<-b[1], 0>>
  ELSE IF a = b THEN NaN ELSE a

\* a / b
Div(a, b) ==
  IF IsFinite(a) /\ IsFinite(b) THEN Frac(a[1] * b[2], a[2] * b[1])
  ELSE IF IsNaN(a) \/ IsNaN(b) THEN NaN
  ELSE IF IsFinite(b) THEN <<a[1] * (IF b[1] < 0 THEN -1 ELSE 1), 0>>
  ELSE IF IsFinite(a) THEN Num(0)
  ELSE NaN

\* a > b (false when either side is NaN or undefined)
Gt(a, b) ==
  IF IsNaN(a) \/ IsNaN(b) THEN FALSE
  ELSE IF IsFinite(a) /\ IsFinite(b) THEN a[1] * b[2] > b[1] * a[2]
  ELSE IF a = b THEN FALSE
  ELSE a = PosInf \/ b = NegInf

\* a === b on numbers: NaN equals nothing
StrictEq(a, b) == a = b /\ a # NaN

\* a <= b on finite numbers
Leq(a, b) == IsFinite(a) /\ IsFinite(b) /\ a[1] * b[2] <= b[1] * a[2]

\* Boolean(v): NaN, 0 and undefined are falsy
Truthy(v) == ~IsNaN(v) /\ v # Num(0)

Range(seq) == {seq[i] : i \in DOMAIN seq}

\* Math.min(...arr): Infinity for no argument, NaN if any argument is NaN
MathMin(arr) ==
  IF arr = <<>> THEN PosInf
  ELSE IF \E i \in DOMAIN arr : IsNaN(arr[i]) THEN NaN
  ELSE CHOOSE m \in Range(arr) : \A v \in Range(arr) : ~Gt(m, v)

\* Math.max(...arr): -Infinity for no argument, NaN if any argument is NaN
MathMax(arr) ==
  IF arr = <<>> THEN NegInf
  ELSE IF \E i \in DOMAIN arr : IsNaN(arr[i]) THEN NaN
  ELSE CHOOSE m \in Range(arr) : \A v \in Range(arr) : ~Gt(v, m)

\* Array.from(set).sort() on keys; keys are integers standing for strings
\* whose lexicographic order is the integers' order
RECURSIVE SortSet(_)
SortSet(S) ==
  IF S = {} THEN <<>>
  ELSE LET m == CHOOSE x \in S : \A y \in S : x <= y
       IN  <<m>> \o SortSet(S \ {m})

\* a JS array is a value: its elements are computed once, when it is built
Array(elements) == elements \o <<>>

\* Array.prototype.indexOf, 1-based; 0 when absent (the source's -1)
IndexOf(arr, x) ==
  IF \E i \in DOMAIN arr : arr[i] = x
  THEN CHOOSE i \in DOMAIN arr : arr[i] = x /\ \A j \in 1..(i - 1) : arr[j] # x
  ELSE 0

(***************************************************************************)
(* CSV text.  A file is its header row and its data rows after             *)
(* trim().split('\n') and split(','): a row is a sequence of fields.       *)
(* Date and Symbol fields are integers standing for strings: 0 is the      *)
(* empty string, 1, 2, ... are ISO dates / ticker names in lexicographic   *)
(* order.  Open and Close fields are the strings of the file.              *)
(***************************************************************************)
EmptyKey == 0
UndefinedKey == -1
UndefinedField == "<undefined>"

DigitValue == ("0" :> 0) @@ ("1" :> 1) @@ ("2" :> 2) @@ ("3" :> 3) @@ ("7" :> 7)

\* Number(text): the empty string is 0, text that is not a number is NaN
JsNumber(text) ==
  IF text \in DOMAIN DigitValue THEN Num(DigitValue[text])
  ELSE IF text = "" THEN Num(0)
  ELSE NaN

\* parseFloat(text): the empty string and undefined are NaN
ParseFloat(text) ==
  IF text \in DOMAIN DigitValue THEN Num(DigitValue[text])
  ELSE NaN

(***************************************************************************)
(* The CSV files the user can select.  A file is a grid of NDates dates    *)
(* and NSyms symbols written date by date; the cell of (date, symbol) is   *)
(* absent from the file or holds the Open and Close text of its row.  The  *)
(* cells repeat along the date axis with period predictionHorizon, each    *)
(* symbol one date behind the previous one.                                *)
(***************************************************************************)
MaxSyms == 2
SmallDates == 5
MaxDates == 20

Absent == <<>>
Cells == {Absent, <<"1", "2">>, <<"2", "1">>, <<"3", "x">>, <<"0", "0">>}

StdHeader == <<"Date", "Symbol", "Open", "Close">>
WideHeader == <<"Symbol", "Date", "Volume", "Close", "Open">>
NoCloseHeader == <<"Date", "Symbol", "Open">>
NoDateHeader == <<"Symbol", "Open", "Close">>
Headers == {StdHeader, WideHeader, NoCloseHeader, NoDateHeader}
RequiredColumns == {"Date", "Symbol", "Open", "Close"}

\* the text of one row under a header
RowText(headers, date, symbol, cell) ==
  [i \in DOMAIN headers |->
     CASE headers[i] = "Date" -> date
       [] headers[i] = "Symbol" -> symbol
       [] headers[i] = "Open" -> cell[1]
       [] headers[i] = "Close" -> cell[2]
       [] OTHER -> "7"]

GridCell(pattern, date, symbol) == pattern[((date + symbol) % Len(pattern)) + 1]

GridRows(headers, nDates, nSyms, pattern) ==
  LET all == [i \in 1..(nDates * nSyms) |->
                LET date == ((i - 1) \div nSyms) + 1
                    symbol == ((i - 1) % nSyms) + 1
                IN  <<date, symbol, GridCell(pattern, date, symbol)>>]
      present == SelectSeq(all, LAMBDA e : e[3] # Absent)
  IN  [i \in DOMAIN present |->
         RowText(headers, present[i][1], present[i][2], present[i][3])]

(***************************************************************************)
(* DataLoader (src/data-loader.js)                                         *)
(***************************************************************************)
DL_new ==
  [symbols |-> <<>>, dates |-> <<>>, dataMatrix |-> <<>>,
   min |-> <<>>, max |-> <<>>, ready |-> FALSE]

NoError == "none"
NotCalled == "not called"
ColumnsMissing == "CSV columns missing. Required: Date,Symbol,Open,Close"
DataNotLoaded == "Data not loaded"

MissingCell == [open |-> NaN, close |-> NaN]

\* loadCSV, the row loop: rows with an empty date or symbol are skipped,
\* Open and Close go through Number()
DL_record(row, dateIdx, symbolIdx, openIdx, closeIdx) ==
  [date |-> row[dateIdx], symbol |-> row[symbolIdx],
   open |-> JsNumber(row[openIdx]), close |-> JsNumber(row[closeIdx])]

DL_recordsOf(kept, dateIdx, symbolIdx, openIdx, closeIdx) ==
  Array([i \in DOMAIN kept |->
           DL_record(kept[i], dateIdx, symbolIdx, openIdx, closeIdx)])

DL_records(file) ==
  LET dateIdx == IndexOf(file.headers, "Date")
      symbolIdx == IndexOf(file.headers, "Symbol")
      openIdx == IndexOf(file.headers, "Open")
      closeIdx == IndexOf(file.headers, "Close")
  IN  DL_recordsOf(
        SelectSeq(file.rows,
          LAMBDA r : r[dateIdx] # EmptyKey /\ r[symbolIdx] # EmptyKey),
        dateIdx, symbolIdx, openIdx, closeIdx)

\* loadCSV, the pivot: cells start as {NaN, NaN}; the rows are written in
\* file order, so the last row of a (date, symbol) pair stays
DL_pivot(data, symbols, dates) ==
  Array([d \in DOMAIN dates |->
     Array([s \in DOMAIN symbols |->
        LET rows == {i \in DOMAIN data :
                       data[i].date = dates[d] /\ data[i].symbol = symbols[s]}
        IN  IF rows = {} THEN MissingCell
            ELSE LET last == CHOOSE i \in rows : \A j \in rows : j <= i
                 IN  [open |-> data[last].open, close |-> data[last].close]])])

DL_scale(val, min, max) ==
  IF IsNaN(val) THEN Half
  ELSE IF StrictEq(max, min) THEN Half
  ELSE Div(Sub(val, min), Sub(max, min))

\* _normalize: min and max per (symbol, feature) over ALL cells of the
\* symbol's column, then the in-place rescale
DL_rescale(self, min, max) ==
  [self EXCEPT
     !.min = min, !.max = max,
     !.dataMatrix =
        Array([d \in DOMAIN self.dataMatrix |->
           Array([s \in DOMAIN self.symbols |->
              [open |-> DL_scale(self.dataMatrix[d][s].open,
                                 min[s].open, max[s].open),
               close |-> DL_scale(self.dataMatrix[d][s].close,
                                  min[s].close, max[s].close)]])])]

DL_normalize(self) ==
  LET openArr(s) == [d \in DOMAIN self.dataMatrix |-> self.dataMatrix[d][s].open]
      closeArr(s) == [d \in DOMAIN self.dataMatrix |-> self.dataMatrix[d][s].close]
  IN  DL_rescale(self,
        Array([s \in DOMAIN self.symbols |->
           [open |-> MathMin(openArr(s)), close |-> MathMin(closeArr(s))]]),
        Array([s \in DOMAIN self.symbols |->
           [open |-> MathMax(openArr(s)), close |-> MathMax(closeArr(s))]]))

\* loadCSV after the rows are parsed: the sorted symbols and dates, the
\* pivot, _normalize, ready
DL_loadPivoted(self, data, symbols, dates) ==
  [self |-> [DL_normalize([self EXCEPT !.symbols = symbols, !.dates = dates,
                                       !.dataMatrix = DL_pivot(data, symbols, dates)])
               EXCEPT !.ready = TRUE],
   error |-> NoError]

DL_loadRecords(self, data) ==
  DL_loadPivoted(self, data,
    SortSet({data[i].symbol : i \in DOMAIN data}),
    SortSet({data[i].date : i \in DOMAIN data}))

\* loadCSV: the outcome is the loader after the call and the error thrown
DL_loadCSV(self, file) ==
  IF ~(\A h \in RequiredColumns : h \in Range(file.headers))
  THEN [self |-> self, error |-> ColumnsMissing]
  ELSE DL_loadRecords(self, DL_records(file))

\* tf.tensor(values).shape for the nested arrays buildDataset passes:
\* [] has shape [0]
TensorShape(values, rank) ==
  IF values = <<>> THEN <<0>>
  ELSE IF rank = 2 THEN <<Len(values), Len(values[1])>>
  ELSE <<Len(values), Len(values[1]), Len(values[1][1])>>

\* buildDataset, dayVec of date index w: open then close of every symbol
DL_dayVec(self, w) ==
  [p \in 1..(2 * Len(self.symbols)) |->
     LET s == (p - 1) \div 2
     IN  IF p % 2 = 1 THEN self.dataMatrix[w + 1][s + 1].open
         ELSE self.dataMatrix[w + 1][s + 1].close]

\* a window that ends at the anchor date instead of before it
DL_xSeq_ThroughAnchor(self, d, windowLen) ==
  [j \in 1..windowLen |-> DL_dayVec(self, d - windowLen + j)]

\* buildDataset, xSeq of anchor d: for (w = d - windowLen; w < d; w++)
DL_xSeq(self, d, windowLen) ==
  [j \in 1..windowLen |-> DL_dayVec(self, d - windowLen + (j - 1))]

\* buildDataset, label of anchor d: for each symbol s, for t = 1..ahead
DL_label(self, d, ahead) ==
  [p \in 1..(Len(self.symbols) * ahead) |->
     LET s == (p - 1) \div ahead
         t == ((p - 1) % ahead) + 1
         closeD == self.dataMatrix[(d - 1) + 1][s + 1].close
         closeF == self.dataMatrix[(d - 1 + t) + 1][s + 1].close
     IN  IF Gt(closeF, closeD) THEN 1 ELSE 0]

\* a loop that stops one anchor early: d < datesLen - ahead - 1
DL_anchors_OneShort(self, windowLen, ahead) ==
  LET n == Len(self.dates) - ahead - windowLen - 1
  IN  [k \in 1..(IF n > 0 THEN n ELSE 0) |-> windowLen + (k - 1)]

\* the anchors of the loop for (d = windowLen; d < datesLen - ahead; d++)
DL_anchors(self, windowLen, ahead) ==
  LET n == Len(self.dates) - ahead - windowLen
  IN  [k \in 1..(IF n > 0 THEN n ELSE 0) |-> windowLen + (k - 1)]

\* a split at the test share instead of the train share
DL_splitIdx_TestShare(total, testSplitPct) == (total * testSplitPct) \div 100

\* Math.floor(total * (1 - testSplit)), testSplit given in percent
DL_splitIdx(total, testSplitPct) == (total * (100 - testSplitPct)) \div 100

NoDataset ==
  [called |-> FALSE, error |-> NoError, windowLen |-> 0, ahead |-> 0,
   testSplitPct |-> 0, X |-> <<>>, y |-> <<>>,
   X_train |-> <<>>, y_train |-> <<>>, X_test |-> <<>>, y_test |-> <<>>,
   symbolNames |-> <<>>]

\* buildDataset, the split and the returned object
DL_split(self, windowLen, ahead, testSplitPct, X, y) ==
  LET total == Len(X)
      splitIdx == DL_splitIdx(total, testSplitPct)
  IN  [called |-> TRUE, error |-> NoError, windowLen |-> windowLen,
       ahead |-> ahead, testSplitPct |-> testSplitPct, X |-> X, y |-> y,
       X_train |-> SubSeq(X, 1, splitIdx),
       y_train |-> SubSeq(y, 1, splitIdx),
       X_test |-> SubSeq(X, splitIdx + 1, total),
       y_test |-> SubSeq(y, splitIdx + 1, total),
       symbolNames |-> self.symbols]

\* buildDataset, the loop over the anchors: X.push(xSeq), y.push(label)
DL_samples(self, windowLen, ahead, testSplitPct, anchors) ==
  DL_split(self, windowLen, ahead, testSplitPct,
    Array([k \in DOMAIN anchors |-> DL_xSeq(self, anchors[k], windowLen)]),
    Array([k \in DOMAIN anchors |-> DL_label(self, anchors[k], ahead)]))

\* buildDataset(windowLen, ahead, testSplit): the arguments, the error
\* thrown, the locals X and y and the returned object
DL_buildDataset(self, windowLen, ahead, testSplitPct) ==
  IF ~self.ready
  THEN [NoDataset EXCEPT !.called = TRUE, !.error = DataNotLoaded,
                         !.windowLen = windowLen, !.ahead = ahead,
                         !.testSplitPct = testSplitPct]
  ELSE DL_samples(self, windowLen, ahead, testSplitPct,
                  DL_anchors(self, windowLen, ahead))

(***************************************************************************)
(* StockDataLoader (src/unnamed/part_000)                                  *)
(***************************************************************************)
sequenceLength == 12
predictionHorizon == 3
trainTestSplitPct == 80

SDL_new ==
  [rawData |-> <<>>, normalizedData |-> <<>>, symbols |-> <<>>, dates |-> <<>>,
   X |-> <<>>, y |-> <<>>, split |-> FALSE,
   X_train |-> <<>>, y_train |-> <<>>, X_test |-> <<>>, y_test |-> <<>>]

FlatArrayError == "tensor3d() requires shape to be provided when values are a flat array"

\* Array.prototype.lastIndexOf, 1-based; 0 when absent
LastIndexOf(arr, x) ==
  IF \E i \in DOMAIN arr : arr[i] = x
  THEN CHOOSE i \in DOMAIN arr : arr[i] = x /\ \A j \in (i + 1)..Len(arr) : arr[j] # x
  ELSE 0

\* [...new Set(keys)].sort(): undefined sorts last
SDL_sortKeys(S) ==
  SortSet(S \ {UndefinedKey}) \o
    (IF UndefinedKey \in S THEN <<UndefinedKey>> ELSE <<>>)

\* parseCSV: one entry per data line, entry[header] = values[idx]; a column
\* the header lacks is undefined
SDL_parseRows(file) ==
  LET col(name) == LastIndexOf(file.headers, name)
      key(r, name) == IF col(name) = 0 THEN UndefinedKey ELSE r[col(name)]
      text(r, name) == IF col(name) = 0 THEN UndefinedField ELSE r[col(name)]
  IN  Array([i \in DOMAIN file.rows |->
         [Date |-> key(file.rows[i], "Date"),
          Symbol |-> key(file.rows[i], "Symbol"),
          Open |-> text(file.rows[i], "Open"),
          Close |-> text(file.rows[i], "Close")]])

NoCell == [present |-> FALSE, Open |-> Undefined, Close |-> Undefined]

\* prepareData, the pivot: rawData.find gives the FIRST row of a
\* (date, symbol) pair; Open and Close go through parseFloat
SDL_pivot(rawData, symbols, dates) ==
  Array([d \in DOMAIN dates |->
     Array([s \in DOMAIN symbols |->
        LET rows == {i \in DOMAIN rawData :
                       rawData[i].Date = dates[d] /\ rawData[i].Symbol = symbols[s]}
        IN  IF rows = {} THEN NoCell
            ELSE LET first == CHOOSE i \in rows : \A j \in rows : i <= j
                 IN  [present |-> TRUE,
                      Open |-> ParseFloat(rawData[first].Open),
                      Close |-> ParseFloat(rawData[first].Close)]])])

\* normalizeData, stockStats[symbol]: min and max over the values that
\* survive filter(Boolean); no entry unless both lists are non-empty
SDL_stats(opens, closes) ==
  IF Len(opens) > 0 /\ Len(closes) > 0
  THEN [present |-> TRUE,
        openMin |-> MathMin(opens), openMax |-> MathMax(opens),
        closeMin |-> MathMin(closes), closeMax |-> MathMax(closes)]
  ELSE [present |-> FALSE, openMin |-> Undefined, openMax |-> Undefined,
        closeMin |-> Undefined, closeMax |-> Undefined]

SDL_stockStats(pivoted, s) ==
  SDL_stats(SelectSeq([d \in DOMAIN pivoted |-> pivoted[d][s].Open], Truthy),
            SelectSeq([d \in DOMAIN pivoted |-> pivoted[d][s].Close], Truthy))

\* normalizeData: a cell is written only when the pivot has it and the
\* symbol has stats
SDL_normalizeCell(data, stats) ==
  IF data.present /\ stats.present
  THEN [present |-> TRUE,
        Open |-> Div(Sub(data.Open, stats.openMin),
                     Sub(stats.openMax, stats.openMin)),
        Close |-> Div(Sub(data.Close, stats.closeMin),
                      Sub(stats.closeMax, stats.closeMin))]
  ELSE NoCell

SDL_normalizeWith(pivoted, symbols, stockStats) ==
  Array([d \in DOMAIN pivoted |->
     Array([s \in DOMAIN symbols |->
        SDL_normalizeCell(pivoted[d][s], stockStats[s])])])

SDL_normalizeData(pivoted, symbols) ==
  SDL_normalizeWith(pivoted, symbols,
    Array([s \in DOMAIN symbols |-> SDL_stockStats(pivoted, s)]))

\* createSequences, featureVector of date index w: Open, Close of every
\* symbol, or 0, 0 as padding
SDL_featureVector(normalizedData, symbols, w) ==
  [p \in 1..(2 * Len(symbols)) |->
     LET stockData == normalizedData[w + 1][((p - 1) \div 2) + 1]
     IN  IF stockData.present
         THEN (IF p % 2 = 1 THEN stockData.Open ELSE stockData.Close)
         ELSE Num(0)]

\* createSequences, sequence of sample i: dates i .. i + sequenceLength - 1
SDL_sequence(normalizedData, symbols, i) ==
  [j \in 1..sequenceLength |-> SDL_featureVector(normalizedData, symbols, i + (j - 1))]

\* createSequences, target of sample i: for each offset, for each symbol
SDL_target(normalizedData, symbols, i) ==
  [p \in 1..(predictionHorizon * Len(symbols)) |->
     LET offset == ((p - 1) \div Len(symbols)) + 1
         s == (p - 1) % Len(symbols)
         close == normalizedData[(i + sequenceLength - 1) + 1][s + 1].Close
         currentClose == IF Truthy(close) THEN close ELSE Num(0)
         futureClose ==
           normalizedData[(i + sequenceLength - 1 + offset) + 1][s + 1].Close
     IN  IF futureClose # Undefined /\ currentClose # Undefined
         THEN (IF Gt(futureClose, currentClose) THEN 1 ELSE 0)
         ELSE 0]

\* the loop for (i = 0; i < dates.length - sequenceLength - predictionHorizon; i++)
SDL_sampleCount(dates) ==
  LET n == Len(dates) - sequenceLength - predictionHorizon
  IN  IF n > 0 THEN n ELSE 0

\* Math.floor(this.X.shape[0] * this.trainTestSplit)
SDL_splitIndex(total) == (total * trainTestSplitPct) \div 100

\* splitData: the slices of X and y
SDL_splitData(self) ==
  LET total == Len(self.X)
      splitIndex == SDL_splitIndex(total)
  IN  [self EXCEPT !.split = TRUE,
                   !.X_train = SubSeq(self.X, 1, splitIndex),
                   !.X_test = SubSeq(self.X, splitIndex + 1, total),
                   !.y_train = SubSeq(self.y, 1, splitIndex),
                   !.y_test = SubSeq(self.y, splitIndex + 1, total)]

\* createSequences: the samples, tf.tensor3d / tf.tensor2d (tf.tensor3d
\* throws on an empty array) and splitData.  The outcome is the loader
\* after the call, the error thrown and the locals sequences and targets.
SDL_tensors(self, sequences, targets) ==
  IF sequences = <<>>
  THEN [self |-> self, error |-> FlatArrayError,
        sequences |-> sequences, targets |-> targets]
  ELSE [self |-> SDL_splitData([self EXCEPT !.X = sequences, !.y = targets]),
        error |-> NoError, sequences |-> sequences, targets |-> targets]

SDL_createSequences(self) ==
  SDL_tensors(self,
    Array([k \in 1..SDL_sampleCount(self.dates) |->
       SDL_sequence(self.normalizedData, self.symbols, k - 1)]),
    Array([k \in 1..SDL_sampleCount(self.dates) |->
       SDL_target(self.normalizedData, self.symbols, k - 1)]))

\* prepareData: symbols, dates, the pivot, normalizeData, createSequences
SDL_preparePivot(self, symbols, dates) ==
  SDL_createSequences(
    [self EXCEPT !.symbols = symbols, !.dates = dates,
                 !.normalizedData =
                    SDL_normalizeData(SDL_pivot(self.rawData, symbols, dates),
                                      symbols)])

SDL_prepareData(self) ==
  SDL_preparePivot(self,
    SDL_sortKeys({self.rawData[i].Symbol : i \in DOMAIN self.rawData}),
    SDL_sortKeys({self.rawData[i].Date : i \in DOMAIN self.rawData}))

\* parseCSV: rawData, then prepareData
SDL_parseCSV(self, file) ==
  SDL_prepareData([self EXCEPT !.rawData = SDL_parseRows(file)])

\* loadCSV: the promise resolves, or is rejected with the error parseCSV throws
SDL_loadCSV(self, file) == SDL_parseCSV(self, file)

(***************************************************************************)
(* TensorFlow.js layers models, as far as the calls of the two apps depend *)
(* on them: a model is its input shape [timesteps, features] and the units *)
(* of its last dense layer.  fit and predict reject tensors whose shape    *)
(* does not fit the model.                                                 *)
(***************************************************************************)
NoNet == [built |-> FALSE, inputShape |-> <<>>, outputSize |-> 0]

Net(inputShape, outputSize) ==
  [built |-> TRUE, inputShape |-> inputShape, outputSize |-> outputSize]

ShapeMismatch == "expected input to have another shape"
ModelNotFound == "Cannot find model in storage"
MustBuildFirst == "Model must be built before prediction"

\* tf.LayersModel.predict(X): X must be [samples, timesteps, features]
TF_predictError(net, xShape) ==
  IF Len(xShape) = 3 /\ <<xShape[2], xShape[3]>> = net.inputShape
  THEN NoError ELSE ShapeMismatch

\* tf.LayersModel.fit(X, y): X as for predict, and y must be [samples, units]
TF_fitError(net, xShape, yShape) ==
  IF /\ TF_predictError(net, xShape) = NoError
     /\ yShape = <<xShape[1], net.outputSize>>
  THEN NoError ELSE ShapeMismatch

(***************************************************************************)
(* GRUModel (src/unnamed/part_002) and the page that uses it with the      *)
(* DataLoader (src/unnamed/part_001)                                       *)
(***************************************************************************)
\* new GRUModel([12, 20], 30, 64): the constructor builds the network
GRU_inputShape == <<12, 20>>
GRU_outputSize == 30

GRUModel_new(inputShape, outputSize) ==
  [inputShape |-> inputShape, outputSize |-> outputSize,
   model |-> Net(inputShape, outputSize)]

\* loadModel: this.model = await tf.loadLayersModel(...), which throws when
\* nothing is stored
GRUModel_loadModel(self, stored) ==
  IF stored.built
  THEN [self |-> [self EXCEPT !.model = stored], error |-> NoError]
  ELSE [self |-> self, error |-> ModelNotFound]

\* e.target.files[0] when no file is selected
NoFile == "undefined"

\* how the latest click on train-btn ended
NoClick == "none"
ReturnedInTraining == "returned: in training"
ReturnedNoData == "returned: Load a CSV first!"
Started == "started"

\* let dataLoader, model, trainData, inTraining = false; and where the
\* handlers of the page are suspended: running counts the train-btn
\* handlers suspended at await model.fit
App1_new ==
  [hasLoader |-> FALSE, dataLoader |-> DL_new,
   loading |-> FALSE, loadingFile |-> NoFile,
   hasModel |-> FALSE, model |-> GRUModel_new(<<>>, 0),
   loadingModel |-> FALSE,
   trainData |-> NoDataset, inTraining |-> FALSE, awaitingFit |-> FALSE,
   running |-> 0, trainClick |-> NoClick,
   localStorage |-> NoNet, uncaught |-> NoError]

\* an invocation of fit, predict or accuracy evaluation: the network it is
\* invoked on and the shapes of the tensors passed
NoInvocation ==
  [op |-> "none", net |-> NoNet, xShape |-> <<>>, yShape |-> <<>>]

Invocation(op, net, xShape, yShape) ==
  [op |-> op, net |-> net, xShape |-> xShape, yShape |-> yShape]

(***************************************************************************)
(* GRUStockPredictor (src/unnamed/part_003) and StockPredictionApp         *)
(* (src/app.js) with the StockDataLoader                                   *)
(***************************************************************************)
\* the shape of one of the tensors getData returns; undefined (no shape)
\* until splitData has run
SDL_shape(self, part, rank) ==
  IF ~self.split THEN <<>>
  ELSE IF rank = 3
       THEN <<Len(part), Len(self.X[1]), Len(self.X[1][1])>>
       ELSE <<Len(part), Len(self.y[1])>>

\* buildModel(inputShape, outputDim): this.model after the call
GSP_buildModel(inputShape, outputDim) == Net(inputShape, outputDim)

\* loadModel: true and the stored network, or false
GSP_loadModel(model, stored) ==
  IF stored.built THEN [model |-> stored, success |-> TRUE]
  ELSE [model |-> model, success |-> FALSE]

\* the StockPredictionApp object after its constructor, the state of the
\* two buttons the handlers enable, and where its handlers are suspended
App2_new(trainBtnDisabled, evaluateBtnDisabled) ==
  [dataLoader |-> SDL_new, uploading |-> {},
   model |-> NoNet, isTraining |-> FALSE, hasHistory |-> FALSE,
   fitting |-> 0, hasPredictions |-> FALSE, hasAccuracies |-> FALSE,
   indexedDB |-> NoNet,
   trainBtnDisabled |-> trainBtnDisabled,
   evaluateBtnDisabled |-> evaluateBtnDisabled,
   caught |-> NoError]

(***************************************************************************)
(* The evaluation of the two pages: per-symbol accuracy of thresholded     *)
(* predictions against the test labels, and the timeline of part_001.      *)
(* Indices are the source's, 0-based; tensors are arrays of rows.          *)
(***************************************************************************)
GRU_nSteps == 3
GSP_daysAhead == 3
Timeline_nSteps == 3

\* a stride one short of nSteps
GRU_idx_ShortStride(s, t) == s * (GRU_nSteps - 1) + t

\* accuracyByStock: const idx = s*nSteps + t
GRU_idx(s, t) == s * GRU_nSteps + t

\* y_pred[i][idx] >= 0.5 ? 1 : 0
GRU_pr(value) == IF Leq(Half, value) THEN 1 ELSE 0

\* accuracyByStock, the loops over i and t for stock s: correct / total
GRU_acc(y_true, y_pred, s) ==
  LET cells == (DOMAIN y_pred) \X (0..(GRU_nSteps - 1))
      correct == {c \in cells :
                    y_true[c[1]][GRU_idx(s, c[2]) + 1] =
                      GRU_pr(y_pred[c[1]][GRU_idx(s, c[2]) + 1])}
  IN  Frac(Cardinality(correct), Cardinality(cells))

\* byStock.sort((a,b) => b.acc - a.acc): descending, equal elements stay in
\* their order
SortByAccDescending(byStock) ==
  LET before(j, k) == \/ Gt(byStock[j].acc, byStock[k].acc)
                      \/ (byStock[j].acc = byStock[k].acc /\ j < k)
      rank(k) == Cardinality({j \in DOMAIN byStock : before(j, k)}) + 1
  IN  [p \in DOMAIN byStock |->
         byStock[CHOOSE k \in DOMAIN byStock : rank(k) = p]]

GRU_accuracyByStock(y_true, y_pred, symbolNames) ==
  [called |-> TRUE,
   perStock |->
     SortByAccDescending(
       Array([s \in DOMAIN symbolNames |->
                [symbol |-> symbolNames[s],
                 acc |-> GRU_acc(y_true, y_pred, s - 1)]])),
   y_true |-> y_true, y_pred |-> y_pred]

\* renderTimelines: one row per entry of perStock; stockId is the index of
\* the entry's symbol in perStock, idxFlat = stockId*nSteps + t, and a cell
\* is green when pr === gt
Timeline_row(perStock, y_true, y_pred, nSteps, symbol) ==
  LET stockId == IndexOf([x \in DOMAIN perStock |-> perStock[x].symbol],
                         symbol) - 1
      idxFlat(t) == stockId * nSteps + t
  IN  [symbol |-> symbol,
       positions |-> [t \in 1..nSteps |-> idxFlat(t - 1)],
       cells |->
         [c \in 1..(Len(y_pred) * nSteps) |->
            LET i == ((c - 1) \div nSteps) + 1
                t == (c - 1) % nSteps
            IN  GRU_pr(y_pred[i][idxFlat(t) + 1]) = y_true[i][idxFlat(t) + 1]]]

renderTimelines(perStock, y_true, y_pred, nSteps) ==
  Array([idx \in DOMAIN perStock |->
           Timeline_row(perStock, y_true, y_pred, nSteps, perStock[idx].symbol)])

\* calculateStockAccuracies: const predIdx = stockIdx + (day * stocksCount)
GSP_predIdx(stockIdx, day, stocksCount) == stockIdx + (day * stocksCount)

\* predArray[sampleIdx][predIdx] > 0.5 ? 1 : 0
GSP_prediction(value) == IF Gt(value, Half) THEN 1 ELSE 0

\* calculateStockAccuracies: accuracies[symbol] for each symbol, in the
\* order of symbols
GSP_calculateStockAccuracies(predArray, trueArray, symbols) ==
  [called |-> TRUE,
   predictions |-> predArray,
   bySymbol |->
     Array([s \in DOMAIN symbols |->
        LET cells == (DOMAIN predArray) \X (0..(GSP_daysAhead - 1))
            predIdx(day) == GSP_predIdx(s - 1, day, Len(symbols))
            correct == {c \in cells :
                          GSP_prediction(predArray[c[1]][predIdx(c[2]) + 1]) =
                            trueArray[c[1]][predIdx(c[2]) + 1]}
        IN  IF Cardinality(cells) > 0
            THEN Frac(Cardinality(correct), Cardinality(cells))
            ELSE Num(0)])]

(***************************************************************************)
(* The loaders on a file the user selected.  A behaviour is one page: it   *)
(* has one loader class, loads the selected file once and, for the         *)
(* DataLoader, calls buildDataset once with some arguments.                *)
(***************************************************************************)
VARIABLES
  file,     \* the CSV file selected
  loader,   \* the loader class of the page
  dl,       \* the DataLoader object
  dlError,  \* the error thrown by DataLoader.loadCSV, once called
  ds,       \* the DataLoader.buildDataset call
  sdlOut,   \* the StockDataLoader.loadCSV call, with the StockDataLoader object
  app,      \* the page: "part_001" or "app.js"
  a1,       \* the globals of part_001 and its suspended handlers
  a2,       \* the StockPredictionApp object and its suspended handlers
  lastCall, \* the latest invocation of fit, predict or accuracy evaluation
  normalizedOnce, \* the DataLoader as loadCSV left it, once _normalize reran
  stats,          \* what GRUModel.accuracyByStock returned
  timelineRows,   \* the rows renderTimelines drew
  accuracies      \* this.predictions and this.accuracies of app.js

loaderVars == <<file, loader, dl, dlError, ds, sdlOut>>
appVars == <<app, a1, a2, lastCall>>
evalVars == <<normalizedOnce, stats, timelineRows, accuracies>>
vars == <<file, loader, dl, dlError, ds, sdlOut, app, a1, a2, lastCall,
          normalizedOnce, stats, timelineRows, accuracies>>

NoStats == [called |-> FALSE, perStock |-> <<>>, y_true |-> <<>>, y_pred |-> <<>>]
NoAccuracies == [called |-> FALSE, predictions |-> <<>>, bySymbol |-> <<>>]

\* nothing evaluated yet, _normalize not rerun
NothingEvaluated ==
  /\ normalizedOnce = DL_new
  /\ stats = NoStats
  /\ timelineRows = <<>>
  /\ accuracies = NoAccuracies

DefaultWindowLen == 12
DefaultAhead == 3
DefaultTestSplitPct == 20
SmallWindow == 2
SmallAhead == 1

Patterns == [1..predictionHorizon -> Cells]
DateCounts == {SmallDates, sequenceLength + predictionHorizon, MaxDates}

\* the arguments <<windowLen, ahead, testSplit in percent>> buildDataset is
\* called with; the first are its defaults
Arguments ==
  {<<DefaultWindowLen, DefaultAhead, DefaultTestSplitPct>>,
   <<SmallWindow, DefaultAhead, DefaultTestSplitPct>>,
   <<SmallWindow, SmallAhead, 50>>,
   <<DefaultWindowLen, SmallAhead, 50>>}

Files ==
  {[headers |-> h, rows |-> GridRows(h, n, m, pat)] :
     h \in Headers, n \in DateCounts, m \in 1..MaxSyms, pat \in Patterns}

NoCall == [called |-> FALSE, self |-> SDL_new, error |-> NoError,
           sequences |-> <<>>, targets |-> <<>>]

Init ==
  /\ file \in Files
  /\ loader \in {"DataLoader", "StockDataLoader"}
  /\ dl = DL_new
  /\ dlError = NotCalled
  /\ ds = NoDataset
  /\ sdlOut = NoCall
  /\ app = "none"
  /\ a1 = App1_new
  /\ a2 = App2_new(TRUE, TRUE)
  /\ lastCall = NoInvocation
  /\ NothingEvaluated

\* dataLoader.loadCSV(file)
LoadCSV ==
  /\ loader = "DataLoader"
  /\ dlError = NotCalled /\ ~ds.called
  /\ LET out == DL_loadCSV(dl, file)
     IN  dl' = out.self /\ dlError' = out.error
  /\ UNCHANGED <<file, loader, ds, sdlOut, appVars, evalVars>>

\* dataLoader.buildDataset(windowLen, ahead, testSplit)
BuildDataset ==
  /\ loader = "DataLoader"
  /\ ~ds.called
  /\ \E args \in Arguments :
       ds' = DL_buildDataset(dl, args[1], args[2], args[3])
  /\ UNCHANGED <<file, loader, dl, dlError, sdlOut, appVars, evalVars>>

\* stockDataLoader.loadCSV(file)
StockLoadCSV ==
  /\ loader = "StockDataLoader"
  /\ ~sdlOut.called
  /\ sdlOut' = [called |-> TRUE] @@ SDL_loadCSV(sdlOut.self, file)
  /\ UNCHANGED <<file, loader, dl, dlError, ds, appVars, evalVars>>

Next == LoadCSV \/ BuildDataset \/ StockLoadCSV

Spec == Init /\ [][Next]_vars

(***************************************************************************)
(* The two pages.  A behaviour is one page: the user selects files and     *)
(* clicks buttons in any order, and a handler suspended at an await        *)
(* resumes at any later time.  The buttons of src/app.js that its handlers *)
(* enable start disabled.                                                  *)
(***************************************************************************)
StockApp_timesteps == 12
StockApp_daysAhead == 3

MaxUploads == 1
MaxFits == 2

AppPattern == <<<<"1", "2">>, <<"2", "1">>, <<"0", "0">>>>

AppFile(headers, nDates, nSyms) ==
  [headers |-> headers, rows |-> GridRows(headers, nDates, nSyms, AppPattern)]

\* enough dates for two samples, so that both parts of a split are non-empty
AppDates == sequenceLength + predictionHorizon + 2

\* the files the user of part_001 can select, by name: one symbol, as many
\* symbols as GRUModel's input has features for, and too few dates for a
\* sample
App1Files ==
  [one |-> AppFile(StdHeader, AppDates, 1),
   full |-> AppFile(StdHeader, AppDates, GRU_inputShape[2] \div 2),
   short |-> AppFile(StdHeader, SmallDates, 1)]

\* the files the user of app.js can select, by name: one symbol, MaxSyms
\* symbols, and too few dates for a sample
App2Files ==
  [one |-> AppFile(StdHeader, AppDates, 1),
   more |-> AppFile(StdHeader, AppDates, MaxSyms),
   short |-> AppFile(StdHeader, SmallDates, 1)]

InitApp ==
  /\ app \in {"part_001", "app.js"}
  /\ a1 = App1_new
  /\ a2 = App2_new(TRUE, TRUE)
  /\ lastCall = NoInvocation
  /\ NothingEvaluated
  /\ file = [headers |-> <<>>, rows |-> <<>>]
  /\ loader = "none"
  /\ dl = DL_new
  /\ dlError = NotCalled
  /\ ds = NoDataset
  /\ sdlOut = NoCall

\* part_001, csv-input change: a new DataLoader, then await loadCSV; with no
\* file selected loadCSV throws at once and the handler catches it
App1_CsvChange ==
  /\ app = "part_001"
  /\ \E f \in DOMAIN App1Files \cup {NoFile} :
       a1' = [a1 EXCEPT !.hasLoader = TRUE, !.dataLoader = DL_new,
                        !.loading = (f # NoFile), !.loadingFile = f]
  /\ UNCHANGED <<app, a2, lastCall, loaderVars, evalVars>>

\* part_001, csv-input change resumed: loadCSV has run on the DataLoader
\* the handler created; an error is caught
App1_CsvLoaded ==
  /\ app = "part_001"
  /\ a1.loading
  /\ a1' = [a1 EXCEPT
              !.dataLoader =
                 DL_loadCSV(a1.dataLoader, App1Files[a1.loadingFile]).self,
              !.loading = FALSE, !.loadingFile = NoFile]
  /\ UNCHANGED <<app, a2, lastCall, loaderVars, evalVars>>

\* a train-btn handler that does not look at inTraining
App1_inTraining_Unchecked == FALSE

\* part_001, train-btn click: if (inTraining) return;
App1_inTraining == a1.inTraining

\* part_001, train-btn click up to await model.fit: fit rejects at once
\* when the tensors do not fit the model, and nothing catches it
App1_TrainClick ==
  /\ app = "part_001"
  /\ IF App1_inTraining
     THEN a1' = [a1 EXCEPT !.trainClick = ReturnedInTraining]
          /\ UNCHANGED lastCall
     ELSE IF ~(a1.hasLoader /\ a1.dataLoader.ready)
     THEN a1' = [a1 EXCEPT !.trainClick = ReturnedNoData]
          /\ UNCHANGED lastCall
     ELSE LET trainData == DL_buildDataset(a1.dataLoader, DefaultWindowLen,
                                           DefaultAhead, DefaultTestSplitPct)
              model == GRUModel_new(GRU_inputShape, GRU_outputSize)
              xShape == TensorShape(trainData.X_train, 3)
              yShape == TensorShape(trainData.y_train, 2)
              error == TF_fitError(model.model, xShape, yShape)
          IN  /\ a1' = [a1 EXCEPT
                          !.inTraining = TRUE, !.trainData = trainData,
                          !.hasModel = TRUE, !.model = model,
                          !.loadingModel = FALSE,
                          !.awaitingFit = (error = NoError),
                          !.running = IF error = NoError THEN @ + 1 ELSE @,
                          !.trainClick = Started,
                          !.uncaught = IF error = NoError THEN @ ELSE error]
              /\ lastCall' = Invocation("fit", model.model, xShape, yShape)
  /\ UNCHANGED <<app, a2, loaderVars, evalVars>>

\* part_001, train-btn click resumed after fit: accuracyByStock on the
\* global model, the charts, inTraining = false
App1_FitDone ==
  /\ app = "part_001"
  /\ a1.awaitingFit
  /\ LET xShape == TensorShape(a1.trainData.X_test, 3)
         yShape == TensorShape(a1.trainData.y_test, 2)
         error == TF_predictError(a1.model.model, xShape)
     IN  /\ a1' = [a1 EXCEPT
                     !.awaitingFit = FALSE,
                     !.running = @ - 1,
                     !.inTraining = (error # NoError),
                     !.uncaught = IF error = NoError THEN @ ELSE error]
         /\ lastCall' = Invocation("accuracyByStock", a1.model.model,
                                   xShape, yShape)
  /\ UNCHANGED <<app, a2, loaderVars, evalVars>>

\* part_001, save-btn click: if (model) await model.saveModel()
App1_SaveClick ==
  /\ app = "part_001"
  /\ a1' = [a1 EXCEPT
              !.localStorage = IF a1.hasModel THEN a1.model.model ELSE @]
  /\ UNCHANGED <<app, a2, lastCall, loaderVars, evalVars>>

\* part_001, load-btn click up to await model.loadModel()
App1_LoadClick ==
  /\ app = "part_001"
  /\ a1' = [a1 EXCEPT !.hasModel = TRUE,
                      !.model = GRUModel_new(GRU_inputShape, GRU_outputSize),
                      !.loadingModel = TRUE]
  /\ UNCHANGED <<app, a2, lastCall, loaderVars, evalVars>>

\* part_001, load-btn click resumed: loadModel has run on the GRUModel the
\* handler created, and nothing catches its error
App1_ModelLoaded ==
  /\ app = "part_001"
  /\ a1.loadingModel
  /\ LET out == GRUModel_loadModel(a1.model, a1.localStorage)
     IN  a1' = [a1 EXCEPT
                  !.model = out.self, !.loadingModel = FALSE,
                  !.uncaught = IF out.error = NoError THEN @ ELSE out.error]
  /\ UNCHANGED <<app, a2, lastCall, loaderVars, evalVars>>

\* app.js, handleFileUpload up to await loadCSV
App2_FileUpload ==
  /\ app = "app.js"
  /\ Cardinality(a2.uploading) < MaxUploads
  /\ \E f \in DOMAIN App2Files \ a2.uploading :
       a2' = [a2 EXCEPT !.uploading = @ \cup {f}]
  /\ UNCHANGED <<app, a1, lastCall, loaderVars, evalVars>>

\* app.js, handleFileUpload resumed: the FileReader has called parseCSV
App2_FileRead ==
  /\ app = "app.js"
  /\ \E f \in a2.uploading :
       LET out == SDL_loadCSV(a2.dataLoader, App2Files[f])
       IN  a2' = [a2 EXCEPT
                    !.dataLoader = out.self,
                    !.uploading = @ \ {f},
                    !.trainBtnDisabled = IF out.error = NoError THEN FALSE ELSE @,
                    !.caught = IF out.error = NoError THEN @ ELSE out.error]
  /\ UNCHANGED <<app, a1, lastCall, loaderVars, evalVars>>

\* app.js, trainModel up to await this.model.fit inside train
App2_TrainClick ==
  /\ app = "app.js"
  /\ ~a2.trainBtnDisabled
  /\ a2.fitting < MaxFits
  /\ LET data == a2.dataLoader
         model == GSP_buildModel(
                    <<StockApp_timesteps, Len(data.symbols) * 2>>,
                    Len(data.symbols) * StockApp_daysAhead)
         xShape == SDL_shape(data, data.X_train, 3)
         yShape == SDL_shape(data, data.y_train, 2)
         error == TF_fitError(model, xShape, yShape)
     IN  /\ a2' = [a2 EXCEPT
                     !.model = model,
                     !.isTraining = (error = NoError),
                     !.fitting = IF error = NoError THEN @ + 1 ELSE @,
                     !.caught = IF error = NoError THEN @ ELSE error]
         /\ lastCall' = Invocation("fit", model, xShape, yShape)
  /\ UNCHANGED <<app, a1, loaderVars, evalVars>>

\* app.js, trainModel resumed after fit: history, saveModel, evaluateBtn
App2_FitDone ==
  /\ app = "app.js"
  /\ a2.fitting > 0
  /\ a2' = [a2 EXCEPT !.fitting = @ - 1, !.isTraining = FALSE,
                      !.hasHistory = TRUE, !.indexedDB = a2.model,
                      !.evaluateBtnDisabled = FALSE]
  /\ UNCHANGED <<app, a1, lastCall, loaderVars, evalVars>>

\* app.js, evaluateModel: predict, calculateStockAccuracies
App2_EvaluateClick ==
  /\ app = "app.js"
  /\ ~a2.evaluateBtnDisabled
  /\ LET data == a2.dataLoader
         xShape == SDL_shape(data, data.X_test, 3)
         yShape == SDL_shape(data, data.y_test, 2)
         error == IF a2.model.built THEN TF_predictError(a2.model, xShape)
                  ELSE MustBuildFirst
     IN  /\ a2' = [a2 EXCEPT
                     !.hasPredictions = IF error = NoError THEN TRUE ELSE @,
                     !.hasAccuracies = IF error = NoError THEN TRUE ELSE @,
                     !.caught = IF error = NoError THEN @ ELSE error]
         /\ lastCall' = IF a2.model.built
                        THEN Invocation("predict", a2.model, xShape, yShape)
                        ELSE lastCall
  /\ UNCHANGED <<app, a1, loaderVars, evalVars>>

\* app.js, loadSavedModel
App2_LoadModelClick ==
  /\ app = "app.js"
  /\ LET out == GSP_loadModel(a2.model, a2.indexedDB)
     IN  a2' = [a2 EXCEPT
                  !.model = out.model,
                  !.evaluateBtnDisabled = IF out.success THEN FALSE ELSE @]
  /\ UNCHANGED <<app, a1, lastCall, loaderVars, evalVars>>

NextApp ==
  \/ App1_CsvChange \/ App1_CsvLoaded \/ App1_TrainClick \/ App1_FitDone
  \/ App1_SaveClick \/ App1_LoadClick \/ App1_ModelLoaded
  \/ App2_FileUpload \/ App2_FileRead \/ App2_TrainClick \/ App2_FitDone
  \/ App2_EvaluateClick \/ App2_LoadModelClick

SpecApp == InitApp /\ [][NextApp]_vars


(***************************************************************************)
(* Files with one row more than their grid: a row written before or after  *)
(* the grid rows, whose Date or Symbol may be empty and whose (date,       *)
(* symbol) pair may be one the grid already has.                           *)
(***************************************************************************)
RowPatterns == {AppPattern, <<<<"1", "2">>, Absent, <<"3", "x">>>>}
RowDateCounts == {SmallDates, sequenceLength + predictionHorizon}
ExtraKeys == {EmptyKey} \cup (1..MaxSyms)
ExtraCells == Cells \ {Absent}

RowFile(headers, nDates, nSyms, pattern, extra, atEnd) ==
  LET grid == GridRows(headers, nDates, nSyms, pattern)
      row == RowText(headers, extra[1], extra[2], extra[3])
  IN  [headers |-> headers,
       rows |-> IF atEnd THEN grid \o <<row>> ELSE <<row>> \o grid]

RowFiles ==
  {RowFile(h, n, m, pat, <<date, symbol, cell>>, atEnd) :
     h \in {StdHeader, WideHeader}, n \in RowDateCounts, m \in 1..MaxSyms,
     pat \in RowPatterns, date \in ExtraKeys, symbol \in ExtraKeys,
     cell \in ExtraCells, atEnd \in BOOLEAN}

InitRows ==
  /\ file \in RowFiles
  /\ loader \in {"DataLoader", "StockDataLoader"}
  /\ dl = DL_new
  /\ dlError = NotCalled
  /\ ds = NoDataset
  /\ sdlOut = NoCall
  /\ app = "none"
  /\ a1 = App1_new
  /\ a2 = App2_new(TRUE, TRUE)
  /\ lastCall = NoInvocation
  /\ NothingEvaluated

SpecRows == InitRows /\ [][Next]_vars

(***************************************************************************)
(* _normalize run once more on a loaded DataLoader.                        *)
(***************************************************************************)
InitNorm ==
  /\ file \in Files
  /\ loader = "DataLoader"
  /\ dl = DL_new
  /\ dlError = NotCalled
  /\ ds = NoDataset
  /\ sdlOut = NoCall
  /\ app = "none"
  /\ a1 = App1_new
  /\ a2 = App2_new(TRUE, TRUE)
  /\ lastCall = NoInvocation
  /\ NothingEvaluated

\* dataLoader._normalize() after loadCSV
Normalize ==
  /\ loader = "DataLoader"
  /\ dl.ready /\ ~normalizedOnce.ready
  /\ normalizedOnce' = dl
  /\ dl' = DL_normalize(dl)
  /\ UNCHANGED <<file, loader, dlError, ds, sdlOut, appVars,
                 stats, timelineRows, accuracies>>

NextNorm == LoadCSV \/ Normalize

SpecNorm == InitNorm /\ [][NextNorm]_vars

(***************************************************************************)
(* The evaluation stage.  The file is loaded, the dataset is built as the  *)
(* page of part_001 builds it, and a model fitted to the dataset predicts  *)
(* any value of PredValues at each position of the test labels.            *)
(***************************************************************************)
PredValues == {Num(0), Half, Num(1)}

\* model.predict(X_test).arraySync(): one row per test sample, shaped as
\* the labels
Predictions(y_test) ==
  [DOMAIN y_test -> [DOMAIN y_test[1] -> PredValues]]

EvalFiles ==
  {AppFile(StdHeader, AppDates, m) : m \in 1..MaxSyms} \cup
  {[headers |-> StdHeader, rows |-> GridRows(StdHeader, AppDates, m, pat)] :
     m \in 1..MaxSyms, pat \in RowPatterns}

InitEval ==
  /\ file \in EvalFiles
  /\ loader \in {"DataLoader", "StockDataLoader"}
  /\ dl = DL_new
  /\ dlError = NotCalled
  /\ ds = NoDataset
  /\ sdlOut = NoCall
  /\ app = "none"
  /\ a1 = App1_new
  /\ a2 = App2_new(TRUE, TRUE)
  /\ lastCall = NoInvocation
  /\ NothingEvaluated

\* trainData = dataLoader.buildDataset()
BuildDefaultDataset ==
  /\ loader = "DataLoader"
  /\ dl.ready /\ ~ds.called
  /\ ds' = DL_buildDataset(dl, DefaultWindowLen, DefaultAhead,
                           DefaultTestSplitPct)
  /\ UNCHANGED <<file, loader, dl, dlError, sdlOut, appVars, evalVars>>

\* stats = await model.accuracyByStock(X_test, y_test, symbolNames);
\* predict rejects an X_test without samples
AccuracyByStock ==
  /\ ds.called /\ ds.error = NoError /\ ds.X_test # <<>>
  /\ ~stats.called
  /\ \E y_pred \in Predictions(ds.y_test) :
       stats' = GRU_accuracyByStock(ds.y_test, y_pred, ds.symbolNames)
  /\ UNCHANGED <<loaderVars, appVars, normalizedOnce, timelineRows, accuracies>>

\* renderTimelines(stats.perStock, stats.y_true, stats.y_pred, 3)
RenderTimelines ==
  /\ stats.called /\ timelineRows = <<>>
  /\ timelineRows' = renderTimelines(stats.perStock, stats.y_true,
                                     stats.y_pred, Timeline_nSteps)
  /\ UNCHANGED <<loaderVars, appVars, normalizedOnce, stats, accuracies>>

\* this.accuracies = this.model.calculateStockAccuracies(predictions,
\* y_test, symbols), on the test part getData returns
CalculateStockAccuracies ==
  /\ sdlOut.called /\ sdlOut.error = NoError
  /\ ~accuracies.called
  /\ \E predictions \in Predictions(sdlOut.self.y_test) :
       accuracies' = GSP_calculateStockAccuracies(
                       predictions, sdlOut.self.y_test, sdlOut.self.symbols)
  /\ UNCHANGED <<loaderVars, appVars, normalizedOnce, stats, timelineRows>>

NextEval ==
  \/ LoadCSV \/ BuildDefaultDataset \/ StockLoadCSV
  \/ AccuracyByStock \/ RenderTimelines \/ CalculateStockAccuracies

SpecEval == InitEval /\ [][NextEval]_vars

(***************************************************************************)
(* What the selected file holds, read off its rows directly.               *)
(***************************************************************************)
HasRequiredColumns(f) == \A h \in RequiredColumns : h \in Range(f.headers)

\* the rows of the file for (date, symbol)
FileRows(f, date, symbol) ==
  {i \in DOMAIN f.rows :
     /\ f.rows[i][IndexOf(f.headers, "Date")] = date
     /\ f.rows[i][IndexOf(f.headers, "Symbol")] = symbol}

\* the number the file holds for (date, symbol) in a column; NaN when the
\* file has no row for the pair or the text is not a number
RawValue(f, date, symbol, column) ==
  LET rows == FileRows(f, date, symbol)
  IN  IF rows = {} THEN NaN
      ELSE LET text == f.rows[CHOOSE i \in rows : TRUE][IndexOf(f.headers, column)]
           IN  IF text \in DOMAIN DigitValue THEN Num(DigitValue[text]) ELSE NaN

\* the numbers the file holds for a symbol in a column, over all dates
RawValues(f, dates, symbol, column) ==
  {RawValue(f, dates[d], symbol, column) : d \in DOMAIN dates} \ {NaN}

DatasetBuilt == ds.called /\ ds.error = NoError
StockLoaded == sdlOut.called /\ HasRequiredColumns(file)

\* position of (symbol s, offset t) in a DataLoader label (symbol-major)
\* and in a StockDataLoader target (day-major), 1-based
DL_labelPos(s, t) == (s - 1) * ds.ahead + t
SDL_targetPos(s, t) == (t - 1) * Len(sdlOut.self.symbols) + s

(***************************************************************************)
(* C1: for every sample with anchor d, symbol s and offset t such that the *)
(* file holds a numeric close for s at dates d-1 and d-1+t, the label of   *)
(* (s, t) is 1 iff the raw close at d-1+t is strictly greater than the raw *)
(* close at d-1, also when s has missing cells on other dates; in          *)
(* DataLoader.buildDataset and in StockDataLoader.createSequences.         *)
(***************************************************************************)
C1_DataLoader ==
  DatasetBuilt =>
    \A k \in DOMAIN ds.y : \A s \in DOMAIN dl.symbols : \A t \in 1..ds.ahead :
      LET d == ds.windowLen + (k - 1)
          closeD == RawValue(file, dl.dates[(d - 1) + 1], dl.symbols[s], "Close")
          closeF == RawValue(file, dl.dates[(d - 1 + t) + 1], dl.symbols[s], "Close")
      IN  (~IsNaN(closeD) /\ ~IsNaN(closeF)) =>
            ds.y[k][DL_labelPos(s, t)] = (IF Gt(closeF, closeD) THEN 1 ELSE 0)

C1_StockDataLoader ==
  StockLoaded =>
    \A k \in DOMAIN sdlOut.targets : \A s \in DOMAIN sdlOut.self.symbols :
      \A t \in 1..predictionHorizon :
        LET d == sequenceLength + (k - 1)
            dates == sdlOut.self.dates
            symbol == sdlOut.self.symbols[s]
            closeD == RawValue(file, dates[(d - 1) + 1], symbol, "Close")
            closeF == RawValue(file, dates[(d - 1 + t) + 1], symbol, "Close")
        IN  (~IsNaN(closeD) /\ ~IsNaN(closeF)) =>
              sdlOut.targets[k][SDL_targetPos(s, t)] =
                (IF Gt(closeF, closeD) THEN 1 ELSE 0)

C1_LabelFollowsRawCloses == C1_DataLoader /\ C1_StockDataLoader

(***************************************************************************)
(* C2: for every sample, symbol s and offset t, if the close of s is       *)
(* missing (no row, or text that is not a number) at date d-1 or at date   *)
(* d-1+t, the label of (s, t) is 0, in both loaders.                       *)
(***************************************************************************)
C2_DataLoader ==
  DatasetBuilt =>
    \A k \in DOMAIN ds.y : \A s \in DOMAIN dl.symbols : \A t \in 1..ds.ahead :
      LET d == ds.windowLen + (k - 1)
          closeD == RawValue(file, dl.dates[(d - 1) + 1], dl.symbols[s], "Close")
          closeF == RawValue(file, dl.dates[(d - 1 + t) + 1], dl.symbols[s], "Close")
      IN  (IsNaN(closeD) \/ IsNaN(closeF)) => ds.y[k][DL_labelPos(s, t)] = 0

C2_StockDataLoader ==
  StockLoaded =>
    \A k \in DOMAIN sdlOut.targets : \A s \in DOMAIN sdlOut.self.symbols :
      \A t \in 1..predictionHorizon :
        LET d == sequenceLength + (k - 1)
            dates == sdlOut.self.dates
            symbol == sdlOut.self.symbols[s]
            closeD == RawValue(file, dates[(d - 1) + 1], symbol, "Close")
            closeF == RawValue(file, dates[(d - 1 + t) + 1], symbol, "Close")
        IN  (IsNaN(closeD) \/ IsNaN(closeF)) =>
              sdlOut.targets[k][SDL_targetPos(s, t)] = 0

C2_MissingCloseLabelsZero == C2_DataLoader /\ C2_StockDataLoader

(***************************************************************************)
(* C3: after DataLoader.loadCSV, for every symbol and feature whose        *)
(* non-missing values are not all equal, every non-missing cell holds      *)
(* (value - min) / (max - min) with min and max over the symbol's          *)
(* non-missing cells; every cell of the matrix lies in [0,1], none is NaN. *)
(***************************************************************************)
C3_Rescaled(column, cellValue(_)) ==
  \A s \in DOMAIN dl.symbols :
    LET values == RawValues(file, dl.dates, dl.symbols[s], column)
        min == CHOOSE m \in values : \A v \in values : Leq(m, v)
        max == CHOOSE m \in values : \A v \in values : Leq(v, m)
    IN  /\ Cardinality(values) > 1 =>
             \A d \in DOMAIN dl.dates :
               LET value == RawValue(file, dl.dates[d], dl.symbols[s], column)
               IN  ~IsNaN(value) =>
                     cellValue(dl.dataMatrix[d][s]) =
                       Div(Sub(value, min), Sub(max, min))
        /\ \A d \in DOMAIN dl.dates :
             /\ Leq(Num(0), cellValue(dl.dataMatrix[d][s]))
             /\ Leq(cellValue(dl.dataMatrix[d][s]), Num(1))

C3_NormalizedOverNonMissing ==
  dl.ready =>
    /\ C3_Rescaled("Open", LAMBDA cell : cell.open)
    /\ C3_Rescaled("Close", LAMBDA cell : cell.close)

(***************************************************************************)
(* C4: every open/close value placed in a feature vector equals 0.5        *)
(* whenever its (date, symbol) value is missing from the file, or the      *)
(* symbol's non-missing values for that feature are all equal or absent;   *)
(* in DataLoader and in StockDataLoader.                                   *)
(***************************************************************************)
NeutralCase(dates, d, symbol, column) ==
  \/ IsNaN(RawValue(file, dates[d], symbol, column))
  \/ Cardinality(RawValues(file, dates, symbol, column)) <= 1

FeatureColumn(p) == IF p % 2 = 1 THEN "Open" ELSE "Close"

C4_DataLoader ==
  DatasetBuilt =>
    \A k \in DOMAIN ds.X : \A j \in 1..ds.windowLen :
      \A p \in 1..(2 * Len(dl.symbols)) :
        NeutralCase(dl.dates, k + (j - 1), dl.symbols[((p - 1) \div 2) + 1],
                    FeatureColumn(p))
          => ds.X[k][j][p] = Half

C4_StockDataLoader ==
  StockLoaded =>
    \A k \in DOMAIN sdlOut.sequences : \A j \in 1..sequenceLength :
      \A p \in 1..(2 * Len(sdlOut.self.symbols)) :
        NeutralCase(sdlOut.self.dates, k + (j - 1),
                    sdlOut.self.symbols[((p - 1) \div 2) + 1], FeatureColumn(p))
          => sdlOut.sequences[k][j][p] = Half

C4_NeutralFallback == C4_DataLoader /\ C4_StockDataLoader

(***************************************************************************)
(* C5: the k-th sample (k = 0, 1, ...) has anchor d = windowLen + k; its   *)
(* feature sequence is the windowLen per-date vectors of the dates         *)
(* d-windowLen .. d-1 in increasing date order, each holding open then     *)
(* close of every symbol in sorted symbol order; so no feature value comes *)
(* from a date at or after the anchor.  Both loaders.                      *)
(***************************************************************************)
StrictlyIncreasing(keys) ==
  \A i, j \in DOMAIN keys : i < j => keys[i] < keys[j]

C5_DataLoader ==
  DatasetBuilt =>
    /\ StrictlyIncreasing(dl.symbols) /\ StrictlyIncreasing(dl.dates)
    /\ \A k \in DOMAIN ds.X :
         LET d == ds.windowLen + (k - 1)
         IN  /\ DOMAIN ds.X[k] = 1..ds.windowLen
             /\ \A j \in 1..ds.windowLen : \A i \in DOMAIN dl.symbols :
                  LET w == d - ds.windowLen + (j - 1)
                  IN  /\ w < d
                      /\ ds.X[k][j][2 * i - 1] = dl.dataMatrix[w + 1][i].open
                      /\ ds.X[k][j][2 * i] = dl.dataMatrix[w + 1][i].close

C5_StockDataLoader ==
  StockLoaded =>
    /\ StrictlyIncreasing(sdlOut.self.symbols)
    /\ StrictlyIncreasing(sdlOut.self.dates)
    /\ \A k \in DOMAIN sdlOut.sequences :
         LET d == sequenceLength + (k - 1)
         IN  /\ DOMAIN sdlOut.sequences[k] = 1..sequenceLength
             /\ \A j \in 1..sequenceLength : \A i \in DOMAIN sdlOut.self.symbols :
                  LET w == d - sequenceLength + (j - 1)
                      cell == sdlOut.self.normalizedData[w + 1][i]
                  IN  /\ w < d
                      /\ sdlOut.sequences[k][j][2 * i - 1] =
                           (IF cell.present THEN cell.Open ELSE Num(0))
                      /\ sdlOut.sequences[k][j][2 * i] =
                           (IF cell.present THEN cell.Close ELSE Num(0))

C5_WindowBeforeAnchor == C5_DataLoader /\ C5_StockDataLoader

\* several samples of two symbols whose windows differ
C5_Witness ==
  /\ DatasetBuilt
  /\ ds.windowLen = DefaultWindowLen
  /\ Len(dl.symbols) = 2
  /\ Len(ds.X) >= 2
  /\ ds.X[1] # ds.X[2]
  /\ \E j \in 1..ds.windowLen : ds.X[1][j][1] # ds.X[1][j][3]

(***************************************************************************)
(* C6: with D dates on the loader's date axis, the builder produces        *)
(* D - windowLen - horizon samples when that is positive and none          *)
(* otherwise; every feature sequence has windowLen rows of 2 x |symbols|   *)
(* entries and every label |symbols| x horizon entries.  Both loaders.     *)
(***************************************************************************)
SampleCount(D, windowLen, horizon) ==
  IF D - windowLen - horizon > 0 THEN D - windowLen - horizon ELSE 0

C6_DataLoader ==
  DatasetBuilt =>
    /\ Len(ds.X) = SampleCount(Len(dl.dates), ds.windowLen, ds.ahead)
    /\ Len(ds.y) = Len(ds.X)
    /\ \A k \in DOMAIN ds.X :
         /\ Len(ds.X[k]) = ds.windowLen
         /\ \A j \in DOMAIN ds.X[k] : Len(ds.X[k][j]) = 2 * Len(dl.symbols)
         /\ Len(ds.y[k]) = Len(dl.symbols) * ds.ahead

C6_StockDataLoader ==
  sdlOut.called =>
    /\ Len(sdlOut.sequences) =
         SampleCount(Len(sdlOut.self.dates), sequenceLength, predictionHorizon)
    /\ Len(sdlOut.targets) = Len(sdlOut.sequences)
    /\ \A k \in DOMAIN sdlOut.sequences :
         /\ Len(sdlOut.sequences[k]) = sequenceLength
         /\ \A j \in DOMAIN sdlOut.sequences[k] :
              Len(sdlOut.sequences[k][j]) = 2 * Len(sdlOut.self.symbols)
         /\ Len(sdlOut.targets[k]) = Len(sdlOut.self.symbols) * predictionHorizon

C6_SampleCountAndShape == C6_DataLoader /\ C6_StockDataLoader

\* 2 symbols, 20 dates, windowLen 12, horizon 3: 5 samples of 12 x 4, labels of 6
C6_Witness ==
  /\ DatasetBuilt
  /\ Len(dl.symbols) = 2 /\ Len(dl.dates) = 20
  /\ ds.windowLen = 12 /\ ds.ahead = 3
  /\ Len(ds.X) = 5
  /\ Len(ds.X[1]) = 12 /\ Len(ds.X[1][1]) = 4 /\ Len(ds.y[1]) = 6

(***************************************************************************)
(* C7: with n samples and train fraction p (DataLoader: 1 - testSplit,     *)
(* StockDataLoader: 0.8) the training set is the first floor(p x n)        *)
(* samples and the test set the remaining ones, both in their order:       *)
(* train followed by test is the sample sequence.                          *)
(***************************************************************************)
C7_DataLoader ==
  DatasetBuilt =>
    LET n == Len(ds.X)
        m == (n * (100 - ds.testSplitPct)) \div 100
    IN  /\ Len(ds.X_train) = m /\ Len(ds.y_train) = m
        /\ Len(ds.X_test) = n - m /\ Len(ds.y_test) = n - m
        /\ ds.X_train \o ds.X_test = ds.X
        /\ ds.y_train \o ds.y_test = ds.y

C7_StockDataLoader ==
  (sdlOut.called /\ sdlOut.error = NoError) =>
    LET n == Len(sdlOut.sequences)
        m == (n * 80) \div 100
    IN  /\ sdlOut.self.split
        /\ Len(sdlOut.self.X_train) = m /\ Len(sdlOut.self.y_train) = m
        /\ Len(sdlOut.self.X_test) = n - m /\ Len(sdlOut.self.y_test) = n - m
        /\ sdlOut.self.X_train \o sdlOut.self.X_test = sdlOut.sequences
        /\ sdlOut.self.y_train \o sdlOut.self.y_test = sdlOut.targets

C7_ChronologicalSplit == C7_DataLoader /\ C7_StockDataLoader

\* n = 10, p = 0.8: 8 training samples and 2 test samples, all different
C7_Witness ==
  /\ DatasetBuilt
  /\ ds.testSplitPct = 20
  /\ Len(ds.X) = 10 /\ Len(ds.X_train) = 8 /\ Len(ds.X_test) = 2
  /\ ds.X_test[1] # ds.X_train[1]

(***************************************************************************)
(* C8: in either page, whenever fit, predict or accuracy evaluation is     *)
(* invoked, the input shape of the model it is invoked on is the           *)
(* (windowLen, 2 x |symbols|) of the feature tensor passed and its output  *)
(* size is the |symbols| x horizon of the label tensor passed.             *)
(***************************************************************************)
C8_ModelFitsDataset ==
  lastCall.op # "none" =>
    /\ Len(lastCall.xShape) = 3
    /\ lastCall.net.inputShape = <<lastCall.xShape[2], lastCall.xShape[3]>>
    /\ lastCall.yShape = <<lastCall.xShape[1], lastCall.net.outputSize>>

(***************************************************************************)
(* C9: loading a CSV whose header lacks one of Date, Symbol, Open, Close   *)
(* fails with an error and leaves the loader as it was before the call;    *)
(* for DataLoader.loadCSV and for StockDataLoader.parseCSV.                *)
(***************************************************************************)
C9_DataLoader ==
  (~HasRequiredColumns(file) /\ dlError # NotCalled) =>
    dlError = ColumnsMissing /\ dl = DL_new

C9_StockDataLoader ==
  (~HasRequiredColumns(file) /\ sdlOut.called) =>
    sdlOut.error # NoError /\ sdlOut.self = SDL_new

C9_MissingColumnRejected == C9_DataLoader /\ C9_StockDataLoader

(***************************************************************************)
(* C10: with fewer than windowLen + horizon dates, DataLoader.buildDataset *)
(* builds no sample and raises an error instead of returning empty         *)
(* train/test tensors.                                                     *)
(***************************************************************************)
C10_InsufficientDataRaises ==
  (ds.called /\ dl.ready /\ Len(dl.dates) < ds.windowLen + ds.ahead) =>
    Len(ds.X) = 0 /\ ds.error # NoError

(***************************************************************************)
(* C11: in the page of part_001, once a training run has ended, by normal  *)
(* completion or by an error thrown by buildDataset, fit or                *)
(* accuracyByStock, inTraining is false again, so that a later click on    *)
(* the train button starts a new run on the DataLoader already loaded.     *)
(* A run is in progress exactly while its handler is suspended at fit.     *)
(***************************************************************************)
C11_TrainingFlagReset ==
  (app = "part_001" /\ ~a1.awaitingFit) => ~a1.inTraining

(***************************************************************************)
(* C12: loading a model when none has been saved yields a not-found        *)
(* outcome and never an exception that escapes the handler; for            *)
(* GRUModel.loadModel under the load-btn handler and for                   *)
(* GRUStockPredictor.loadModel under StockPredictionApp.loadSavedModel.    *)
(***************************************************************************)
C12_GRUModel == a1.uncaught # ModelNotFound

C12_GRUStockPredictor == a2.caught # ModelNotFound

C12_LoadNotFoundIsOutcome == C12_GRUModel /\ C12_GRUStockPredictor

(***************************************************************************)
(* The rows of the selected file by their keys.                            *)
(***************************************************************************)
KeyOf(f, i, column) == f.rows[i][IndexOf(f.headers, column)]

\* the rows whose Date and Symbol are both non-empty
WellFormedRows(f) ==
  {i \in DOMAIN f.rows :
     KeyOf(f, i, "Date") # EmptyKey /\ KeyOf(f, i, "Symbol") # EmptyKey}

\* the last row of the file for (date, symbol), 0 when it has none
LastRow(f, date, symbol) ==
  LET rows == FileRows(f, date, symbol)
  IN  IF rows = {} THEN 0 ELSE CHOOSE i \in rows : \A j \in rows : j <= i

(***************************************************************************)
(* C13: when the file has several rows for one (date, symbol), the pivoted *)
(* cell of the pair holds the open and close of the last of them in file   *)
(* order; in DataLoader.loadCSV and in StockDataLoader.prepareData.        *)
(***************************************************************************)
C13_DataLoader ==
  dlError = NoError =>
    LET pivot == DL_pivot(DL_records(file), dl.symbols, dl.dates)
    IN  \A d \in DOMAIN dl.dates : \A s \in DOMAIN dl.symbols :
          LET last == LastRow(file, dl.dates[d], dl.symbols[s])
          IN  last # 0 =>
                pivot[d][s] =
                  [open |-> JsNumber(KeyOf(file, last, "Open")),
                   close |-> JsNumber(KeyOf(file, last, "Close"))]

C13_StockDataLoader ==
  StockLoaded =>
    LET self == sdlOut.self
        pivoted == SDL_pivot(self.rawData, self.symbols, self.dates)
    IN  \A d \in DOMAIN self.dates : \A s \in DOMAIN self.symbols :
          LET last == LastRow(file, self.dates[d], self.symbols[s])
          IN  last # 0 =>
                pivoted[d][s] =
                  [present |-> TRUE,
                   Open |-> ParseFloat(KeyOf(file, last, "Open")),
                   Close |-> ParseFloat(KeyOf(file, last, "Close"))]

C13_LastDuplicateWins == C13_DataLoader /\ C13_StockDataLoader

(***************************************************************************)
(* C14: a data row whose Date or Symbol is empty yields no record and no   *)
(* entry of the symbol list, of the date axis or of the matrix, and the    *)
(* load succeeds; in DataLoader.loadCSV and in StockDataLoader.parseCSV    *)
(* with prepareData (whose load fails only later, for want of samples).    *)
(***************************************************************************)
WellFormedKeys(f, column) ==
  SortSet({KeyOf(f, i, column) : i \in WellFormedRows(f)})

C14_DataLoader ==
  (dlError # NotCalled /\ HasRequiredColumns(file)) =>
    /\ dlError = NoError
    /\ Len(DL_records(file)) = Cardinality(WellFormedRows(file))
    /\ dl.symbols = WellFormedKeys(file, "Symbol")
    /\ dl.dates = WellFormedKeys(file, "Date")
    /\ Len(dl.dataMatrix) = Len(dl.dates)
    /\ \A d \in DOMAIN dl.dataMatrix : Len(dl.dataMatrix[d]) = Len(dl.symbols)

C14_StockDataLoader ==
  StockLoaded =>
    /\ Len(sdlOut.self.rawData) = Cardinality(WellFormedRows(file))
    /\ sdlOut.self.symbols = WellFormedKeys(file, "Symbol")
    /\ sdlOut.self.dates = WellFormedKeys(file, "Date")
    /\ Len(sdlOut.self.normalizedData) = Len(sdlOut.self.dates)

C14_EmptyKeyRowSkipped == C14_DataLoader /\ C14_StockDataLoader

(***************************************************************************)
(* C15: _normalize run a second time on the matrix it has normalized       *)
(* leaves unchanged every cell that the first run did not set by a         *)
(* fallback of _scale (a value that is NaN, or max === min), also when the *)
(* matrix has missing cells.                                               *)
(***************************************************************************)
FallbackCell(val, min, max) == IsNaN(val) \/ StrictEq(max, min)

C15_NormalizeIdempotent ==
  normalizedOnce.ready =>
    LET raw == DL_pivot(DL_records(file), dl.symbols, dl.dates)
        once == normalizedOnce
    IN  \A d \in DOMAIN dl.dates : \A s \in DOMAIN dl.symbols :
          /\ ~FallbackCell(raw[d][s].open, once.min[s].open, once.max[s].open)
               => dl.dataMatrix[d][s].open = once.dataMatrix[d][s].open
          /\ ~FallbackCell(raw[d][s].close, once.min[s].close, once.max[s].close)
               => dl.dataMatrix[d][s].close = once.dataMatrix[d][s].close

(***************************************************************************)
(* C16: the timeline row renderTimelines draws for symbol s compares       *)
(* predictions with true labels at exactly the label positions that        *)
(* buildDataset wrote for s (the index of s in the sorted symbols times    *)
(* nSteps, plus t), whatever the order of the perStock list that           *)
(* accuracyByStock returned.                                               *)
(***************************************************************************)
C16_TimelineReadsOwnLabels ==
  \A r \in DOMAIN timelineRows :
    LET row == timelineRows[r]
        s == IndexOf(ds.symbolNames, row.symbol)
    IN  \A t \in 1..Timeline_nSteps :
          /\ row.positions[t] + 1 = DL_labelPos(s, t)
          /\ \A i \in DOMAIN stats.y_pred :
               row.cells[(i - 1) * Timeline_nSteps + t] =
                 (GRU_pr(stats.y_pred[i][DL_labelPos(s, t)]) =
                    stats.y_true[i][DL_labelPos(s, t)])

(***************************************************************************)
(* C17: with horizon 3, within each variant the per-symbol accuracy reads  *)
(* exactly the label positions its label builder wrote for the symbol:     *)
(* accuracyByStock (s*3 + t) on buildDataset's symbol-major labels, and    *)
(* calculateStockAccuracies (s + day*|symbols|) on createSequences'        *)
(* day-major targets; for every symbol and offset.  The position read for  *)
(* (s, t) holds the label the builder computed for (s, t), and the         *)
(* accuracy of s is the share of matches at those positions.               *)
(***************************************************************************)
\* buildDataset: the label of symbol s (1-based), offset t, at anchor d
BuiltLabel(d, s, t) ==
  LET closeD == dl.dataMatrix[(d - 1) + 1][s].close
      closeF == dl.dataMatrix[(d - 1 + t) + 1][s].close
  IN  IF Gt(closeF, closeD) THEN 1 ELSE 0

\* createSequences: the target of symbol s (1-based), offset, of sample i
CreatedTarget(i, s, offset) ==
  LET data == sdlOut.self.normalizedData
      close == data[(i + sequenceLength - 1) + 1][s].Close
      currentClose == IF Truthy(close) THEN close ELSE Num(0)
      futureClose == data[(i + sequenceLength - 1 + offset) + 1][s].Close
  IN  IF futureClose # Undefined /\ Gt(futureClose, currentClose)
      THEN 1 ELSE 0

\* the share of (sample, offset) pairs whose prediction, thresholded,
\* equals the label at the position of (s, offset)
MatchShare(y_true, y_pred, s, pos(_, _), threshold(_)) ==
  LET cells == (DOMAIN y_pred) \X (1..predictionHorizon)
      match == {c \in cells :
                  threshold(y_pred[c[1]][pos(s, c[2])]) =
                    y_true[c[1]][pos(s, c[2])]}
  IN  Frac(Cardinality(match), Cardinality(cells))

C17_GRUModel ==
  (stats.called /\ ds.ahead = predictionHorizon) =>
    /\ \A k \in DOMAIN ds.y : \A s \in DOMAIN dl.symbols :
         \A t \in 1..GRU_nSteps :
           ds.y[k][GRU_idx(s - 1, t - 1) + 1] =
             BuiltLabel(ds.windowLen + (k - 1), s, t)
    /\ \A p \in DOMAIN stats.perStock :
         stats.perStock[p].acc =
           MatchShare(stats.y_true, stats.y_pred,
                      IndexOf(ds.symbolNames, stats.perStock[p].symbol),
                      DL_labelPos, GRU_pr)

C17_GRUStockPredictor ==
  accuracies.called =>
    LET self == sdlOut.self
        n == Len(self.symbols)
    IN  /\ \A k \in DOMAIN self.y : \A s \in 1..n :
             \A day \in 0..(GSP_daysAhead - 1) :
               self.y[k][GSP_predIdx(s - 1, day, n) + 1] =
                 CreatedTarget(k - 1, s, day + 1)
        /\ \A s \in 1..n :
             accuracies.bySymbol[s] =
               MatchShare(self.y_test, accuracies.predictions, s,
                          SDL_targetPos, GSP_prediction)

C17_AccuracyReadsOwnLabels == C17_GRUModel /\ C17_GRUStockPredictor

\* two symbols whose labels differ, one predicted better than the other
C17_Witness ==
  /\ stats.called
  /\ Len(stats.perStock) >= 2
  /\ SubSeq(stats.y_true[1], 1, GRU_nSteps) #
       SubSeq(stats.y_true[1], GRU_nSteps + 1, 2 * GRU_nSteps)
  /\ stats.perStock[1].acc # stats.perStock[2].acc

C17_WitnessStockPredictor ==
  /\ accuracies.called
  /\ Len(accuracies.bySymbol) >= 2
  /\ \E day \in 0..(GSP_daysAhead - 1) :
       sdlOut.self.y_test[1][GSP_predIdx(0, day, 2) + 1] #
         sdlOut.self.y_test[1][GSP_predIdx(1, day, 2) + 1]
  /\ accuracies.bySymbol[1] # accuracies.bySymbol[2]

(***************************************************************************)
(* C18: in the page of part_001, whatever the interleaving of csv-input    *)
(* changes and train-btn clicks, at most one training run is in progress;  *)
(* a click while inTraining is true starts no dataset build and no fit,    *)
(* and a click before a CSV has been loaded successfully starts no         *)
(* training.                                                               *)
(***************************************************************************)
CsvLoaded == a1.hasLoader /\ ~a1.loading /\ a1.dataLoader.ready

C18_Step ==
  app = "part_001" =>
    /\ a1'.running <= 1
    /\ (a1.inTraining \/ ~CsvLoaded) =>
         /\ a1'.running <= a1.running
         /\ a1'.trainData = a1.trainData
         /\ a1'.trainClick # a1.trainClick => a1'.trainClick # Started
         /\ (lastCall' # lastCall => lastCall'.op # "fit")

C18_OneTrainingRun == [][C18_Step]_vars

\* a click arrived while a run was suspended at fit, and was dropped
C18_Witness ==
  /\ a1.trainClick = ReturnedInTraining
  /\ a1.running = 1
  /\ a1.inTraining

====
